---- MODULE Spec2Model ----
(***************************************************************************)
(* Client of the Wolffs Insta AutoTrade application: the AuthContext       *)
(* (session token, user, bearer header), the catch blocks of the pages'    *)
(* HTTP calls, the dashboard's WebSocket listener and the settings page's  *)
(* instruments list.                                                       *)
(***************************************************************************)
EXTENDS Integers, Sequences, FiniteSets, TLC

\* ------------------------------------------------------------------ bounds
NumTokens == 2        \* distinct session tokens the server may issue
MaxInFlight == 1      \* GET /api/auth/me requests in flight per token
MaxPost == 1          \* login/register POSTs in flight
MaxPending == 1       \* requests of the protected pages in flight
MaxMounts == 2        \* times the dashboard is mounted (component instances)
MaxSockets == 3       \* WebSocket objects alive at a time
MaxTimers == 2        \* reconnect timers pending per dashboard instance
NumAlerts == 2        \* distinct alerts
MaxAlerts == 2        \* length of the dashboard's alerts list
MaxInstr == 2         \* length of the instruments array a settings response carries
NumAdminData == 1     \* distinct payloads an admin endpoint may return
MaxPwLen == 7         \* longest password typed into a form
NumPw == 2            \* distinct passwords of one length
MaxChange == 1        \* POST /api/auth/change-password requests in flight
MaxPoll == 1          \* GET /api/alerts requests of the alerts page in flight
MaxTime == 2          \* clock values (new Date())

\* program constants
RECONNECT_MS == 2000
HEARTBEAT_MS == 30000
POLL_MS == 15000
MIN_PASSWORD_LENGTH == 6

Null == 0
Tokens == 1..NumTokens
TokenOrNull == Tokens \cup {Null}

VARIABLES
    \* AuthContext.jsx
    lsToken,        \* localStorage 'token'
    lsWelcomed,     \* localStorage 'welcomed'
    authHeader,     \* axios.defaults.headers.common['Authorization'] (the token after 'Bearer ')
    token,          \* useState token
    user,           \* useState user (the token whose profile the server returned)
    loading,        \* useState loading
    meInFlight,     \* GET /api/auth/me requests in flight, by the token they were sent with
    postInFlight,   \* login/register POSTs in flight, by kind
    pagePending,    \* requests issued by the protected pages and not yet answered
    sinceLogout,    \* history: logout() ran and no login/register has succeeded since
    \* DashboardPage (AlertsPage.jsx:871-1031)
    inst,           \* DashboardPage instances mounted so far; inst is the newest
    mounted,        \* the newest instance is mounted
    sock,           \* the WebSocket objects: readyState, creating instance, heartbeat interval's period (0: none)
    wsRef,          \* wsRef.current of each instance (0: null)
    pendingTimers,  \* reconnect timers pending, per instance whose closure they call
    refTimer,       \* reconnectTimeoutRef.current of each instance: null, a pending or a dead timer
    reconnectDelay, \* delay of the last setTimeout of ws.onclose (0: none yet)
    wsConnected,    \* useState wsConnected of the mounted instance
    alerts,         \* useState alerts of the mounted instance
    showWelcome,    \* useState showWelcome of the mounted instance
    fetchMount,     \* the mount effect's fetchData is in flight
    refreshing,     \* useState refreshing: handleRefresh's fetchData is in flight
    \* SettingsPage
    settingsMounted, \* /settings is rendered
    instruments,     \* useState instruments
    settingsFetch,   \* fetchSettings is in flight
    \* AdminPage (AlertsPage.jsx:287-385)
    adminMounted,   \* /admin shows the AdminPage
    adminFetch,     \* fetchData is awaiting its Promise.all
    adminData,      \* useState users, plans, welcomeConfig (0: the initial empty value)
    adminLoading,   \* useState loading
    adminPath,      \* where the admin page's navigate() last went ("none": nowhere)
    adminSaw403,    \* history: a request of the last answered admin call returned 403
    \* LoginPage (AlertsPage.jsx:1460-1526) and SettingsPage's password card
    formLoading,    \* LoginPage useState loading
    regMobile,      \* regMobile is filled in
    regPassword,
    regConfirmPassword,
    currentPassword, \* currentPassword is filled in
    newPassword,
    confirmNewPassword,
    changingPassword, \* useState changingPassword
    cpInFlight,     \* POST /api/auth/change-password requests in flight
    \* SubscriptionPage (App.js:169-243) and the account on the server
    srvPlans,       \* server: the plan types the account has an active subscription for
    subscription,   \* user.subscription of the client's user object
    selectedPlan,   \* useState selectedPlan
    showModal,      \* useState showModal
    processing,     \* useState processing
    trialInFlight,  \* plan of the POST /api/subscription/start-trial in flight ("none")
    \* AlertsPage (AlertsPage.jsx:16-47)
    alertsPageMounted,
    apInFlight,     \* GET /api/alerts requests of the alerts page in flight
    apLastFailed,   \* the last answered GET /api/alerts of the alerts page failed
    apRefreshing,   \* useState refreshing of the alerts page
    pollDelay,      \* period of the alerts page's setInterval (0: none set)
    \* SettingsPage's Delta Exchange connection card (part_003:117-182) and the
    \* account's Delta state on the server
    deltaMounted,   \* /settings is rendered (the connection card's instance)
    hasSavedCredentials, \* useState hasSavedCredentials
    deltaStatus,    \* deltaStatus?.is_connected is truthy
    connecting,     \* useState connecting
    keysEntered,    \* apiKey and apiSecret are both filled in
    settingsReply,  \* has_delta_credentials of the mount's GET /api/settings in flight
    mountStatus,    \* the mount's GET /api/delta/status is in flight
    deltaOp,        \* the connection handler that is running and the await it is at
    srvCreds,       \* server: the account has saved Delta credentials
    srvConnected,   \* server: the account's Delta connection is up
    \* the router (App.js:22-130)
    path,           \* location.pathname
    page,           \* the element the last render of the routes produced
    now,            \* the clock
    renderedAt,     \* the clock at the last render
    \* what the last step did (history, read by the properties)
    last,
    toast

authVars == <<lsToken, lsWelcomed, authHeader, token, user, loading, meInFlight,
              postInFlight, pagePending, sinceLogout>>
dashVars == <<inst, mounted, sock, wsRef, pendingTimers, refTimer, reconnectDelay,
              wsConnected, alerts, showWelcome, fetchMount, refreshing>>
vars == <<lsToken, lsWelcomed, authHeader, token, user, loading, meInFlight,
          postInFlight, pagePending, sinceLogout,
          inst, mounted, sock, wsRef, pendingTimers, refTimer, reconnectDelay,
          wsConnected, alerts, showWelcome, fetchMount, refreshing,
          settingsMounted, instruments, settingsFetch,
          adminMounted, adminFetch, adminData, adminLoading, adminPath, adminSaw403,
          formLoading, regMobile, regPassword, regConfirmPassword,
          currentPassword, newPassword, confirmNewPassword, changingPassword,
          cpInFlight,
          srvPlans, subscription, selectedPlan, showModal, processing, trialInFlight,
          alertsPageMounted, apInFlight, apLastFailed, apRefreshing, pollDelay,
          deltaMounted, hasSavedCredentials, deltaStatus, connecting, keysEntered,
          settingsReply, mountStatus, deltaOp, srvCreds, srvConnected,
          path, page, now, renderedAt,
          last, toast>>
settingsVars == <<settingsMounted, instruments, settingsFetch>>
adminVars == <<adminMounted, adminFetch, adminData, adminLoading, adminPath, adminSaw403>>
formVars == <<formLoading, regMobile, regPassword, regConfirmPassword,
              currentPassword, newPassword, confirmNewPassword, changingPassword,
              cpInFlight>>
subVars == <<srvPlans, subscription, selectedPlan, showModal, processing, trialInFlight>>
pollVars == <<alertsPageMounted, apInFlight, apLastFailed, apRefreshing, pollDelay>>
routeVars == <<path, page, now, renderedAt>>
deltaVars == <<deltaMounted, hasSavedCredentials, deltaStatus, connecting, keysEntered,
               settingsReply, mountStatus, deltaOp, srvCreds, srvConnected>>
moreVars == <<adminVars, formVars, subVars, pollVars, routeVars, deltaVars>>

\* ------------------------------------------------------------ AuthContext
isAuthenticated == token # Null /\ user # Null

\* useEffect(..., [token]): runs after a render in which token changed
TokenEffect(newToken, directHeader) ==
    IF newToken # token THEN newToken ELSE directHeader

NoStep == [op |-> "none", site |-> "none", status |-> 0]
Step(op, site, status) == [op |-> op, site |-> site, status |-> status]

PostKinds == {"login", "register"}

InitAuth ==
    /\ lsToken \in TokenOrNull
    /\ lsWelcomed \in BOOLEAN
    /\ token = lsToken
    /\ authHeader = lsToken
    /\ user = Null
    /\ loading = (lsToken # Null)
    /\ meInFlight = [t \in Tokens |-> IF t = lsToken THEN 1 ELSE 0]
    /\ postInFlight = [k \in PostKinds |-> 0]
    /\ pagePending = 0
    /\ sinceLogout = FALSE

\* fetchUser up to its await
fetchUser ==
    IF lsToken = Null
    THEN /\ loading' = FALSE
         /\ UNCHANGED <<authHeader, meInFlight>>
    ELSE /\ meInFlight[lsToken] < MaxInFlight
         /\ authHeader' = lsToken
         /\ meInFlight' = [meInFlight EXCEPT ![lsToken] = @ + 1]
         /\ UNCHANGED loading

\* fetchUser after the await: try / catch / finally
FetchUserOk(t) ==
    /\ user' = t
    /\ token' = t
    /\ authHeader' = TokenEffect(t, authHeader)
    /\ UNCHANGED lsToken

\* mutant: the 401 branch leaves the token in localStorage
FetchUserCatchKeepsStorage(status) ==
    IF status = 401
    THEN /\ token' = Null
         /\ user' = Null
         /\ authHeader' = TokenEffect(Null, Null)
         /\ UNCHANGED lsToken
    ELSE UNCHANGED <<lsToken, token, user, authHeader>>

\* mutant: the catch block logs out whatever the failure is
FetchUserCatchAny(status) ==
    /\ lsToken' = Null
    /\ token' = Null
    /\ user' = Null
    /\ authHeader' = TokenEffect(Null, Null)

\* fetchUser's catch: only a 401 ends the session
FetchUserCatch(status) ==
    IF status = 401
    THEN /\ lsToken' = Null
         /\ token' = Null
         /\ user' = Null
         /\ authHeader' = TokenEffect(Null, Null)
    ELSE UNCHANGED <<lsToken, token, user, authHeader>>

FailStatuses == {0, 401, 403, 500}   \* 0: no response (network error)

MeResponse(t) ==
    /\ meInFlight[t] > 0
    /\ meInFlight' = [meInFlight EXCEPT ![t] = @ - 1]
    /\ loading' = FALSE
    /\ \/ /\ FetchUserOk(t)
          /\ last' = Step("me_ok", "fetchUser", 200)
       \/ \E st \in FailStatuses :
            /\ FetchUserCatch(st)
            /\ last' = Step("fail", "fetchUser", st)
    /\ toast' = "none"
    /\ UNCHANGED <<lsWelcomed, postInFlight, pagePending, sinceLogout>>

\* ------------------------------------------------ the pages' HTTP calls
\* What each call site's catch block does with a failed request.
LoadSites ==
    {"AlertsPage.fetchAlerts", "DashboardPage.fetchDeltaStatus",
     "DashboardPage.fetchAlerts", "DashboardPage.fetchWelcomeConfig",
     "SubscriptionPage.fetchPlans", "SettingsPage.fetchSettings",
     "SettingsPage.fetchDeltaStatus"}
\* handleRefresh awaits the page's fetch and then shows its success toast
RefreshButtonSites == {"AlertsPage.handleRefresh", "DashboardPage.handleRefresh"}
AdminLoadSites == {"AdminPage.fetchData"}
AdminActionSites ==
    {"AdminPage.handleExtendSubscription", "AdminPage.handleActivatePlan",
     "AdminPage.handleSavePlans", "AdminPage.handleSaveWelcome",
     "AdminPage.handleDeleteUser"}
\* handlers that await their request and then refreshUser()
RefreshSites ==
    {"SubscriptionPage.handleStartTrial", "SettingsPage.handleConnect",
     "SettingsPage.handleReconnect", "SettingsPage.handleDisconnect",
     "SettingsPage.handleClearCredentials", "SettingsPage.handleSaveSettings"}
PostSite(kind) ==
    IF kind = "login" THEN "LoginPage.handleLogin" ELSE "LoginPage.handleRegister"
PostSites == {PostSite(k) : k \in PostKinds}
OtherActionSites == {"SettingsPage.handleChangePassword"}
ActionSites == AdminActionSites \cup RefreshSites \cup PostSites \cup OtherActionSites
Sites == LoadSites \cup RefreshButtonSites \cup AdminLoadSites \cup ActionSites

CatchMode(site) ==
    CASE site \in LoadSites -> "silent"
      [] site \in RefreshButtonSites -> "refresh"
      [] site \in AdminLoadSites -> "admin"
      [] site \in {"AdminPage.handleSavePlans", "AdminPage.handleSaveWelcome",
                   "SettingsPage.handleDisconnect",
                   "SettingsPage.handleClearCredentials",
                   "SettingsPage.handleSaveSettings"} -> "fixed"
      [] OTHER -> "detail"

\* mutant: the catch blocks with a fixed text only log to the console
CatchToastFixedSilent(site, status, detail) ==
    CASE CatchMode(site) = "detail" ->
            IF detail THEN "error_detail" ELSE "error_fallback"
      [] CatchMode(site) = "admin" ->
            IF status = 403 THEN "error_admin" ELSE "none"
      [] CatchMode(site) = "refresh" -> "success"
      [] OTHER -> "none"

\* the toast a catch block shows; detail: error.response?.data?.detail is set
CatchToast(site, status, detail) ==
    CASE CatchMode(site) = "detail" ->
            IF detail THEN "error_detail" ELSE "error_fallback"
      [] CatchMode(site) = "fixed" -> "error_fallback"
      [] CatchMode(site) = "admin" ->
            IF status = 403 THEN "error_admin" ELSE "none"
      [] CatchMode(site) = "refresh" -> "success"
      [] OTHER -> "none"

PageSites == Sites \ PostSites

\* A protected page (rendered for an authenticated user) issues a request of
\* one of PageSites and awaits it. Which call site issued it is read when the
\* response arrives; nothing in between depends on it.
PageRequestStart ==
    /\ isAuthenticated /\ ~loading
    /\ pagePending < MaxPending
    /\ pagePending' = pagePending + 1
    /\ last' = NoStep /\ toast' = "none"
    /\ UNCHANGED <<lsToken, lsWelcomed, authHeader, token, user, loading,
                   meInFlight, postInFlight, sinceLogout>>

refreshUser == fetchUser

\* The request of a RefreshSites handler succeeds:
\* toast.success(...); await refreshUser()
PageHandlerOk(site) ==
    /\ pagePending > 0
    /\ pagePending' = pagePending - 1
    /\ refreshUser
    /\ last' = Step("ok", site, 200) /\ toast' = "success"
    /\ UNCHANGED <<lsToken, lsWelcomed, token, user, postInFlight, sinceLogout>>

\* mutant: a rejected login / register clears the session
RequestFailsClearsSession(site, status, detail) ==
    /\ detail => status # 0
    /\ IF site \in PageSites
       THEN pagePending > 0 /\ pagePending' = pagePending - 1
       ELSE UNCHANGED pagePending
    /\ IF site \in PostSites
       THEN \E k \in PostKinds :
                /\ site = PostSite(k)
                /\ postInFlight[k] > 0
                /\ postInFlight' = [postInFlight EXCEPT ![k] = @ - 1]
       ELSE UNCHANGED postInFlight
    /\ toast' = CatchToast(site, status, detail)
    /\ last' = Step("fail", site, status)
    /\ IF site \in PostSites
       THEN /\ lsToken' = Null /\ token' = Null /\ user' = Null
            /\ authHeader' = TokenEffect(Null, Null)
       ELSE UNCHANGED <<lsToken, authHeader, token, user>>
    /\ UNCHANGED <<lsWelcomed, loading, meInFlight, sinceLogout>>

\* A request of a page fails: the catch block of its call site runs.
RequestFails(site, status, detail) ==
    /\ detail => status # 0
    /\ IF site \in PageSites
       THEN pagePending > 0 /\ pagePending' = pagePending - 1
       ELSE UNCHANGED pagePending
    /\ IF site \in PostSites
       THEN \E k \in PostKinds :
                /\ site = PostSite(k)
                /\ postInFlight[k] > 0
                /\ postInFlight' = [postInFlight EXCEPT ![k] = @ - 1]
       ELSE UNCHANGED postInFlight
    /\ toast' = CatchToast(site, status, detail)
    /\ last' = Step("fail", site, status)
    /\ UNCHANGED <<lsToken, lsWelcomed, authHeader, token, user, loading,
                   meInFlight, sinceLogout>>

\* LoginPage.handleLogin / handleRegister up to the await inside login / register
PostStart(kind) ==
    /\ ~loading /\ ~isAuthenticated
    /\ postInFlight["login"] + postInFlight["register"] < MaxPost
    /\ postInFlight' = [postInFlight EXCEPT ![kind] = @ + 1]
    /\ last' = NoStep /\ toast' = "none"
    /\ UNCHANGED <<lsToken, lsWelcomed, authHeader, token, user, loading,
                   meInFlight, pagePending, sinceLogout>>

\* login / register after the await
login(newToken) ==
    /\ lsToken' = newToken
    /\ token' = newToken
    /\ user' = newToken
    /\ authHeader' = TokenEffect(newToken, newToken)

PostOk(kind) ==
    /\ postInFlight[kind] > 0
    /\ postInFlight' = [postInFlight EXCEPT ![kind] = @ - 1]
    /\ \E n \in Tokens : login(n)
    /\ sinceLogout' = FALSE
    /\ last' = Step("ok", PostSite(kind), 200) /\ toast' = "success"
    /\ UNCHANGED <<lsWelcomed, loading, meInFlight, pagePending>>

\* mutant: logout leaves 'welcomed' in localStorage
logoutKeepsWelcomed ==
    /\ lsToken' = Null
    /\ UNCHANGED lsWelcomed
    /\ token' = Null
    /\ user' = Null
    /\ authHeader' = TokenEffect(Null, Null)

logout ==
    /\ lsToken' = Null
    /\ lsWelcomed' = FALSE
    /\ token' = Null
    /\ user' = Null
    /\ authHeader' = TokenEffect(Null, Null)

\* SubscriptionPage's logout button
Logout ==
    /\ isAuthenticated /\ ~loading
    /\ logout
    /\ sinceLogout' = TRUE
    /\ last' = Step("logout", "none", 0) /\ toast' = "none"
    /\ UNCHANGED <<loading, meInFlight, postInFlight, pagePending>>

\* ---------------------------------------------------------- DashboardPage
Insts == 1..MaxMounts
SocketIds == 1..MaxSockets
AlertIds == 1..NumAlerts

\* the plan type an alert is addressed to, and the plan of a user's subscription
AlertPlan(a) == IF a % 2 = 1 THEN "wolffs_alerts" ELSE "custom_strategy"
PlanOf(u) == IF u % 2 = 1 THEN "wolffs_alerts" ELSE "custom_strategy"

FreeSock == [state |-> "none", owner |-> 0, hb |-> 0]
Live == {"CONNECTING", "OPEN"}

InitDash ==
    /\ inst = 0
    /\ mounted = FALSE
    /\ sock = [s \in SocketIds |-> FreeSock]
    /\ wsRef = [i \in Insts |-> 0]
    /\ pendingTimers = [i \in Insts |-> 0]
    /\ refTimer = [i \in Insts |-> "null"]
    /\ reconnectDelay = 0
    /\ wsConnected = FALSE
    /\ alerts = <<>>
    /\ showWelcome = FALSE
    /\ fetchMount = FALSE
    /\ refreshing = FALSE

\* A closed WebSocket no wsRef points to is garbage: its slot is reused.
Gc(sk, refs) ==
    [s \in SocketIds |->
        IF sk[s].state = "CLOSED" /\ \A i \in Insts : refs[i] # s
        THEN FreeSock ELSE sk[s]]

\* mutant: the state setters of an unmounted instance act on the mounted one
IsMountedAny(i) == mounted

\* state setters of instance i: a no-op once that instance is unmounted
IsMounted(i) == mounted /\ inst = i

\* connectWebSocket of instance i
connectWebSocket(i) ==
    IF wsRef[i] # 0 /\ sock[wsRef[i]].state = "OPEN"
    THEN UNCHANGED <<sock, wsRef>>
    ELSE \E s \in SocketIds :
            /\ sock[s].state = "none"
            /\ \A r \in SocketIds : sock[r].state = "none" => s <= r
            /\ wsRef' = [wsRef EXCEPT ![i] = s]
            /\ sock' = Gc([sock EXCEPT ![s] =
                              [state |-> "CONNECTING", owner |-> i, hb |-> 0]],
                          wsRef')

\* ws.close(): only a connecting or open socket starts closing
CloseCall(sk, s) ==
    IF s # 0 /\ sk[s].state \in Live
    THEN [sk EXCEPT ![s].state = "CLOSING"] ELSE sk

\* the mount effect's cleanup, for instance i
Cleanup(i) ==
    /\ sock' = CloseCall(sock, wsRef[i])
    /\ IF refTimer[i] = "pending"
       THEN /\ pendingTimers' = [pendingTimers EXCEPT ![i] = @ - 1]
            /\ refTimer' = [refTimer EXCEPT ![i] = "dead"]
       ELSE UNCHANGED <<pendingTimers, refTimer>>
    /\ mounted' = FALSE
    /\ fetchMount' = FALSE
    /\ refreshing' = FALSE
    /\ UNCHANGED <<inst, wsRef, reconnectDelay, wsConnected, alerts, showWelcome>>

\* the routes: the dashboard is unmounted as soon as the session is lost
RouteEffect ==
    IF mounted /\ ~(token' # Null /\ user' # Null)
    THEN Cleanup(inst)
    ELSE UNCHANGED dashVars

\* /dashboard is rendered: initial state and the mount effect
Mount ==
    /\ isAuthenticated /\ ~loading
    /\ ~mounted /\ inst < MaxMounts
    /\ inst' = inst + 1
    /\ mounted' = TRUE
    /\ wsConnected' = FALSE
    /\ alerts' = <<>>
    /\ fetchMount' = TRUE
    /\ refreshing' = FALSE
    /\ connectWebSocket(inst + 1)
    /\ showWelcome' = ~lsWelcomed
    /\ lsWelcomed' = TRUE
    /\ last' = Step("mount", "DashboardPage", inst + 1) /\ toast' = "none"
    /\ UNCHANGED <<pendingTimers, refTimer, reconnectDelay>>
    /\ UNCHANGED <<lsToken, authHeader, token, user, loading, meInFlight,
                   postInFlight, pagePending, sinceLogout>>

\* navigate('/settings'), navigate('/alerts'), navigate('/admin')
Unmount ==
    /\ mounted
    /\ Cleanup(inst)
    /\ last' = Step("unmount", "DashboardPage", inst) /\ toast' = "none"
    /\ UNCHANGED authVars

handleLogout ==
    /\ mounted
    /\ logout
    /\ sinceLogout' = TRUE
    /\ Cleanup(inst)
    /\ last' = Step("logout", "DashboardPage", inst) /\ toast' = "none"
    /\ UNCHANGED <<loading, meInFlight, postInFlight, pagePending>>

\* ws.onopen
SocketOpen(s) ==
    /\ sock[s].state = "CONNECTING"
    /\ sock' = [sock EXCEPT ![s].state = "OPEN", ![s].hb = HEARTBEAT_MS]
    /\ wsConnected' = IF IsMounted(sock[s].owner) THEN TRUE ELSE wsConnected
    /\ last' = Step("onopen", "ws", sock[s].owner) /\ toast' = "none"
    /\ UNCHANGED <<inst, mounted, wsRef, pendingTimers, refTimer, reconnectDelay,
                   alerts, showWelcome, fetchMount, refreshing>>
    /\ UNCHANGED authVars

\* mutant: ws.onclose leaves the heartbeat interval running
clearIntervalSkipped(hb) == hb

\* clearInterval(ws.heartbeatInterval) of ws.onclose
clearInterval(hb) == 0

\* mutant: ws.onclose sets no timer
ScheduleReconnectNever(i) ==
    UNCHANGED <<pendingTimers, refTimer, reconnectDelay>>

\* setTimeout(() => connectWebSocket(), 2000) of ws.onclose
ScheduleReconnect(i) ==
    /\ pendingTimers' = [pendingTimers EXCEPT ![i] = @ + 1]
    /\ refTimer' = [refTimer EXCEPT ![i] = "pending"]
    /\ reconnectDelay' = RECONNECT_MS

\* The connection ends (closed by either side, or failed): ws.onerror when it
\* failed, then ws.onclose.
SocketClose(s) ==
    /\ sock[s].state \in {"CONNECTING", "OPEN", "CLOSING"}
    /\ pendingTimers[sock[s].owner] < MaxTimers
    /\ sock' = Gc([sock EXCEPT ![s] = [@ EXCEPT !.state = "CLOSED",
                                                 !.hb = clearInterval(@)]], wsRef)
    /\ wsConnected' = IF IsMounted(sock[s].owner) THEN FALSE ELSE wsConnected
    /\ ScheduleReconnect(sock[s].owner)
    /\ last' = Step("onclose", "ws", sock[s].owner) /\ toast' = "none"
    /\ UNCHANGED <<inst, mounted, wsRef, alerts, showWelcome, fetchMount, refreshing>>
    /\ UNCHANGED authVars

\* a reconnect timer of instance i fires
TimerFire(i) ==
    /\ pendingTimers[i] > 0
    /\ pendingTimers' = [pendingTimers EXCEPT ![i] = @ - 1]
    /\ \/ /\ refTimer[i] = "pending"
          /\ refTimer' = [refTimer EXCEPT ![i] = "dead"]
       \/ /\ pendingTimers[i] > (IF refTimer[i] = "pending" THEN 1 ELSE 0)
          /\ UNCHANGED refTimer
    /\ connectWebSocket(i)
    /\ last' = Step("timer", "ws", i) /\ toast' = "none"
    /\ UNCHANGED <<inst, mounted, reconnectDelay, wsConnected, alerts, showWelcome,
                   fetchMount, refreshing>>
    /\ UNCHANGED authVars

\* the heartbeat interval of socket s ticks
HeartbeatTick(s) ==
    /\ sock[s].hb > 0
    /\ last' = Step(IF sock[s].state = "OPEN" THEN "ping" ELSE "no_ping", "ws", s)
    /\ toast' = "none"
    /\ UNCHANGED dashVars
    /\ UNCHANGED authVars

FrameKinds == {"new_alert", "other_type", "invalid_json"}

\* mutant: the new alert goes to the end of the list
OnMessageAppend(list, kind, a) ==
    IF kind = "new_alert" THEN list \o <<a>> ELSE list

\* the alerts list after ws.onmessage
OnMessage(list, kind, a) ==
    IF kind = "new_alert" THEN <<a>> \o list ELSE list

\* ws.onmessage: a frame arrives on an open socket
SocketMessage(s, kind, a) ==
    /\ sock[s].state = "OPEN"
    /\ IF IsMounted(sock[s].owner)
       THEN /\ Len(OnMessage(alerts, kind, a)) <= MaxAlerts
            /\ alerts' = OnMessage(alerts, kind, a)
            /\ last' = Step("onmessage", kind, a)
       ELSE /\ UNCHANGED alerts
            /\ last' = Step("onmessage_unmounted", kind, a)
    /\ toast' = IF kind = "new_alert" THEN "alert" ELSE "none"
    /\ UNCHANGED <<inst, mounted, sock, wsRef, pendingTimers, refTimer, reconnectDelay,
                   wsConnected, showWelcome, fetchMount, refreshing>>
    /\ UNCHANGED authVars

\* the alert lists GET /api/alerts may return
RECURSIVE SeqsUpTo(_, _)
SeqsUpTo(S, n) ==
    IF n = 0 THEN {<<>>}
    ELSE LET shorter == SeqsUpTo(S, n - 1)
         IN shorter \cup {<<x>> \o q : x \in S, q \in {r \in shorter : Len(r) = n - 1}}
ServerLists ==
    {q \in SeqsUpTo(AlertIds, MaxAlerts) :
        \A j, k \in 1..Len(q) : j # k => q[j] # q[k]}

handleRefresh ==
    /\ mounted /\ ~refreshing
    /\ refreshing' = TRUE
    /\ last' = Step("refresh", "DashboardPage", inst) /\ toast' = "none"
    /\ UNCHANGED <<inst, mounted, sock, wsRef, pendingTimers, refTimer, reconnectDelay,
                   wsConnected, alerts, showWelcome, fetchMount>>
    /\ UNCHANGED authVars

\* DashboardPage.fetchAlerts after the await, inside fetchData
FetchAlertsResponse(byRefresh, ok, list) ==
    /\ mounted
    /\ IF byRefresh
       THEN refreshing /\ refreshing' = FALSE /\ UNCHANGED fetchMount
       ELSE fetchMount /\ fetchMount' = FALSE /\ UNCHANGED refreshing
    /\ alerts' = IF ok THEN list ELSE alerts
    /\ toast' = IF byRefresh THEN "success" ELSE "none"
    /\ last' = Step(IF ok THEN "ok" ELSE "fail",
                    IF byRefresh THEN "DashboardPage.handleRefresh"
                    ELSE "DashboardPage.fetchAlerts", IF ok THEN 200 ELSE 500)
    /\ UNCHANGED <<inst, mounted, sock, wsRef, pendingTimers, refTimer, reconnectDelay,
                   wsConnected, showWelcome>>
    /\ UNCHANGED authVars

\* ----------------------------------------------------------- SettingsPage
InstrumentNames == {"BTC", "ETH"}
DefaultInstruments == <<"BTC", "ETH">>

\* response.data.trading_settings.instruments: absent, or an array
ServerInstruments ==
    {[present |-> FALSE, list |-> <<>>]} \cup
    {[present |-> TRUE, list |-> q] : q \in SeqsUpTo(InstrumentNames, MaxInstr)}

InitSettings ==
    /\ settingsMounted = FALSE
    /\ instruments = DefaultInstruments
    /\ settingsFetch = FALSE

Includes(list, x) == \E k \in 1..Len(list) : list[k] = x
Filter(list, x) == SelectSeq(list, LAMBDA y : y # x)

\* settings.instruments || ['BTC', 'ETH']: an array, even an empty one, is truthy
InstrumentsOrDefault(v) == IF v.present THEN v.list ELSE DefaultInstruments

\* the list after toggleInstrument(x)
ToggleInstrument(list, x) ==
    IF Includes(list, x)
    THEN IF Len(list) > 1 THEN Filter(list, x) ELSE list
    ELSE Append(list, x)

SettingsMount ==
    /\ isAuthenticated /\ ~loading
    /\ ~settingsMounted
    /\ settingsMounted' = TRUE
    /\ instruments' = DefaultInstruments
    /\ settingsFetch' = TRUE
    /\ last' = Step("mount", "SettingsPage", 0) /\ toast' = "none"
    /\ UNCHANGED authVars

SettingsCleanup ==
    /\ settingsMounted' = FALSE
    /\ settingsFetch' = FALSE
    /\ UNCHANGED instruments

SettingsUnmount ==
    /\ settingsMounted
    /\ SettingsCleanup
    /\ last' = Step("unmount", "SettingsPage", 0) /\ toast' = "none"
    /\ UNCHANGED authVars

SettingsRouteEffect ==
    IF settingsMounted /\ ~(token' # Null /\ user' # Null)
    THEN SettingsCleanup
    ELSE UNCHANGED settingsVars

\* SettingsPage.fetchSettings after the await
FetchSettingsResponse(ok, v) ==
    /\ settingsMounted /\ settingsFetch
    /\ settingsFetch' = FALSE
    /\ instruments' = IF ok THEN InstrumentsOrDefault(v) ELSE instruments
    /\ last' = Step(IF ok THEN "ok" ELSE "fail", "SettingsPage.fetchSettings",
                    IF ok THEN 200 ELSE 500)
    /\ toast' = "none"
    /\ UNCHANGED settingsMounted
    /\ UNCHANGED authVars

toggleInstrument(x) ==
    /\ settingsMounted
    /\ instruments' = ToggleInstrument(instruments, x)
    /\ last' = Step("toggle", x, 0) /\ toast' = "none"
    /\ UNCHANGED <<settingsMounted, settingsFetch>>
    /\ UNCHANGED authVars

\* -------------------------------------------------------------- AdminPage
AdminDataIds == 1..NumAdminData
NoAdminData == [users |-> 0, plans |-> 0, welcome |-> 0]

\* what one of the three requests of fetchData may be answered with
AdminResponses ==
    {[st |-> 200, d |-> d] : d \in AdminDataIds} \cup
    {[st |-> st, d |-> 0] : st \in FailStatuses}

InitAdmin ==
    /\ adminMounted = FALSE
    /\ adminFetch = FALSE
    /\ adminData = NoAdminData
    /\ adminLoading = FALSE
    /\ adminPath = "none"
    /\ adminSaw403 = FALSE

\* /admin is rendered (ProtectedRoute): initial state and the mount effect
AdminMount(isAdmin) ==
    /\ isAuthenticated /\ ~loading
    /\ ~adminMounted /\ ~adminFetch
    /\ adminData' = NoAdminData
    /\ adminLoading' = TRUE
    /\ adminSaw403' = FALSE
    /\ IF isAdmin
       THEN /\ adminMounted' = TRUE
            /\ adminFetch' = TRUE
            /\ adminPath' = "none"
       ELSE /\ adminMounted' = FALSE
            /\ adminFetch' = FALSE
            /\ adminPath' = "/subscription"
    /\ last' = Step("mount", "AdminPage", IF isAdmin THEN 1 ELSE 0)
    /\ toast' = "none"
    /\ UNCHANGED authVars

\* the user leaves /admin
AdminUnmount ==
    /\ adminMounted
    /\ adminMounted' = FALSE
    /\ last' = Step("unmount", "AdminPage", 0) /\ toast' = "none"
    /\ UNCHANGED <<adminFetch, adminData, adminLoading, adminPath, adminSaw403>>
    /\ UNCHANGED authVars

\* Promise.all of fetchData: the requests whose rejection rejects it; the
\* welcome request carries its own .catch and never does
Rejections(u, p, w) == {r \in {u, p} : r.st # 200}

\* mutant: the catch block never navigates
AdminRedirectsNever(status) == FALSE

\* if (error.response?.status === 403) of fetchData's catch
AdminRedirects(status) == status = 403

\* AdminPage.fetchData after the await: try / catch / finally
AdminFetchResponse(u, p, w) ==
    /\ adminFetch
    /\ adminFetch' = FALSE
    /\ adminSaw403' = (403 \in {u.st, p.st, w.st})
    /\ IF Rejections(u, p, w) = {}
       THEN /\ adminData' = IF adminMounted
                            THEN [users |-> u.d, plans |-> p.d,
                                  welcome |-> IF w.st = 200 THEN w.d ELSE 0]
                            ELSE adminData
            /\ adminLoading' = IF adminMounted THEN FALSE ELSE adminLoading
            /\ last' = Step("ok", "AdminPage.fetchData", 200)
            /\ toast' = "none"
            /\ UNCHANGED <<adminMounted, adminPath>>
       ELSE \E e \in Rejections(u, p, w) :
            /\ UNCHANGED adminData
            /\ last' = Step("fail", "AdminPage.fetchData", e.st)
            /\ toast' = CatchToast("AdminPage.fetchData", e.st, FALSE)
            /\ IF AdminRedirects(e.st)
               THEN /\ adminPath' = "/subscription"
                    /\ adminMounted' = FALSE
                    /\ UNCHANGED adminLoading
               ELSE /\ adminLoading' = IF adminMounted THEN FALSE ELSE adminLoading
                    /\ UNCHANGED <<adminMounted, adminPath>>
    /\ UNCHANGED authVars

\* handlers that call fetchData() after their request succeeded
AdminReloadSites ==
    {"AdminPage.handleExtendSubscription", "AdminPage.handleActivatePlan",
     "AdminPage.handleDeleteUser"}

\* the request of an admin handler succeeds: toast.success(...); the handlers
\* of AdminReloadSites go on to await fetchData()
AdminActionOk(site) ==
    /\ adminMounted
    /\ pagePending > 0
    /\ pagePending' = pagePending - 1
    /\ IF site \in AdminReloadSites
       THEN /\ ~adminFetch
            /\ adminFetch' = TRUE
            /\ adminLoading' = TRUE
       ELSE UNCHANGED <<adminFetch, adminLoading>>
    /\ adminSaw403' = FALSE
    /\ last' = Step("ok", site, 200) /\ toast' = "success"
    /\ UNCHANGED <<adminMounted, adminData, adminPath>>
    /\ UNCHANGED <<lsToken, lsWelcomed, authHeader, token, user, loading,
                   meInFlight, postInFlight, sinceLogout>>

\* a request of one of the admin page's handlers fails
AdminActionFails(site, status, detail) ==
    /\ adminMounted
    /\ RequestFails(site, status, detail)
    /\ adminSaw403' = (status = 403)
    /\ UNCHANGED <<adminMounted, adminFetch, adminData, adminLoading, adminPath>>

\* ------------------------------------- LoginPage and the password card
\* a typed password: its length (String.length) and which string of that length
\* the lengths typed: none, and those around the minimum up to MaxPwLen
PwLens == {0} \cup (MIN_PASSWORD_LENGTH - 1)..MaxPwLen
Passwords ==
    {[len |-> n, v |-> k] : n \in PwLens, k \in 1..NumPw} \
        {[len |-> 0, v |-> k] : k \in 2..NumPw}
EmptyPassword == [len |-> 0, v |-> 1]

InitForms ==
    /\ formLoading = FALSE
    /\ regMobile = FALSE
    /\ regPassword = EmptyPassword
    /\ regConfirmPassword = EmptyPassword
    /\ currentPassword = FALSE
    /\ newPassword = EmptyPassword
    /\ confirmNewPassword = EmptyPassword
    /\ changingPassword = FALSE
    /\ cpInFlight = 0

\* PublicRoute shows the LoginPage
LoginPageShown == ~loading /\ ~isAuthenticated

\* disabled={loading} of register-submit-btn (and of the login button)
RegisterSubmitEnabled == LoginPageShown /\ ~formLoading

LoginPageReset ==
    /\ formLoading' = FALSE
    /\ regMobile' = FALSE
    /\ regPassword' = EmptyPassword
    /\ regConfirmPassword' = EmptyPassword

PasswordCardVars == <<currentPassword, newPassword, confirmNewPassword,
                      changingPassword, cpInFlight>>
LoginPageVars == <<formLoading, regMobile, regPassword, regConfirmPassword>>

\* onChange of one of the register form's inputs
TypeRegister(m, pw, cf) ==
    /\ LoginPageShown
    /\ regMobile' = m /\ regPassword' = pw /\ regConfirmPassword' = cf
    /\ Cardinality({k \in 1..3 : <<regMobile, regPassword, regConfirmPassword>>[k]
                                   # <<m, pw, cf>>[k]}) = 1
    /\ last' = Step("type", "LoginPage", 0) /\ toast' = "none"
    /\ UNCHANGED <<formLoading, PasswordCardVars>>
    /\ UNCHANGED authVars

\* mutant: the handler does not compare the two passwords
ValidateRegisterNoMatch(m, pw, cf) ==
    CASE ~m \/ pw.len = 0 \/ cf.len = 0 -> "fill"
      [] pw.len < MIN_PASSWORD_LENGTH -> "short"
      [] OTHER -> "ok"

\* mutant: the handler does not test the length
ValidateRegisterNoLength(m, pw, cf) ==
    CASE ~m \/ pw.len = 0 \/ cf.len = 0 -> "fill"
      [] pw # cf -> "mismatch"
      [] OTHER -> "ok"

\* the checks of handleRegister before setLoading(true)
ValidateRegister(m, pw, cf) ==
    CASE ~m \/ pw.len = 0 \/ cf.len = 0 -> "fill"
      [] pw # cf -> "mismatch"
      [] pw.len < MIN_PASSWORD_LENGTH -> "short"
      [] OTHER -> "ok"

\* LoginPage.handleRegister up to the await inside register()
handleRegister ==
    /\ RegisterSubmitEnabled
    /\ IF ValidateRegister(regMobile, regPassword, regConfirmPassword) = "ok"
       THEN /\ postInFlight["login"] + postInFlight["register"] < MaxPost
            /\ postInFlight' = [postInFlight EXCEPT !["register"] = @ + 1]
            /\ formLoading' = TRUE
            /\ last' = Step("submit", "LoginPage.handleRegister", 0)
            /\ toast' = "none"
       ELSE /\ UNCHANGED <<postInFlight, formLoading>>
            /\ last' = Step("reject", "LoginPage.handleRegister", 0)
            /\ toast' = "error_validation"
    /\ UNCHANGED <<regMobile, regPassword, regConfirmPassword, PasswordCardVars>>
    /\ UNCHANGED <<lsToken, lsWelcomed, authHeader, token, user, loading,
                   meInFlight, pagePending, sinceLogout>>

\* LoginPage.handleLogin up to the await inside login()
handleLogin(filled) ==
    /\ RegisterSubmitEnabled
    /\ IF filled
       THEN /\ postInFlight["login"] + postInFlight["register"] < MaxPost
            /\ postInFlight' = [postInFlight EXCEPT !["login"] = @ + 1]
            /\ formLoading' = TRUE
            /\ last' = Step("submit", "LoginPage.handleLogin", 0)
            /\ toast' = "none"
       ELSE /\ UNCHANGED <<postInFlight, formLoading>>
            /\ last' = Step("reject", "LoginPage.handleLogin", 0)
            /\ toast' = "error_validation"
    /\ UNCHANGED <<regMobile, regPassword, regConfirmPassword, PasswordCardVars>>
    /\ UNCHANGED <<lsToken, lsWelcomed, authHeader, token, user, loading,
                   meInFlight, pagePending, sinceLogout>>

\* login()/register() resolve: the LoginPage gives way to /subscription
LoginPageOk(kind) ==
    /\ PostOk(kind)
    /\ LoginPageReset
    /\ UNCHANGED PasswordCardVars

\* login()/register() reject: catch and finally of the handler
LoginPageFails(kind, status, detail) ==
    /\ RequestFails(PostSite(kind), status, detail)
    /\ formLoading' = FALSE
    /\ UNCHANGED <<regMobile, regPassword, regConfirmPassword, PasswordCardVars>>

PasswordCardReset ==
    /\ currentPassword' = FALSE
    /\ newPassword' = EmptyPassword
    /\ confirmNewPassword' = EmptyPassword
    /\ changingPassword' = FALSE

\* onChange of one of the password card's inputs
TypePassword(cur, np, cf) ==
    /\ settingsMounted
    /\ currentPassword' = cur /\ newPassword' = np /\ confirmNewPassword' = cf
    /\ Cardinality({k \in 1..3 : <<currentPassword, newPassword, confirmNewPassword>>[k]
                                   # <<cur, np, cf>>[k]}) = 1
    /\ last' = Step("type", "SettingsPage", 0) /\ toast' = "none"
    /\ UNCHANGED <<changingPassword, cpInFlight, LoginPageVars>>
    /\ UNCHANGED authVars

\* the checks of handleChangePassword before setChangingPassword(true)
ValidateChangePassword(cur, np, cf) ==
    CASE ~cur \/ np.len = 0 \/ cf.len = 0 -> "fill"
      [] np # cf -> "mismatch"
      [] np.len < MIN_PASSWORD_LENGTH -> "short"
      [] OTHER -> "ok"

\* SettingsPage.handleChangePassword up to its await
handleChangePassword ==
    /\ settingsMounted /\ ~changingPassword
    /\ IF ValidateChangePassword(currentPassword, newPassword, confirmNewPassword) = "ok"
       THEN /\ cpInFlight < MaxChange
            /\ cpInFlight' = cpInFlight + 1
            /\ changingPassword' = TRUE
            /\ last' = Step("submit", "SettingsPage.handleChangePassword", 0)
            /\ toast' = "none"
       ELSE /\ UNCHANGED <<cpInFlight, changingPassword>>
            /\ last' = Step("reject", "SettingsPage.handleChangePassword", 0)
            /\ toast' = "error_validation"
    /\ UNCHANGED <<currentPassword, newPassword, confirmNewPassword, LoginPageVars>>
    /\ UNCHANGED authVars

\* SettingsPage.handleChangePassword after the await: try / catch / finally
ChangePasswordResponse(ok, status, detail) ==
    /\ cpInFlight > 0
    /\ cpInFlight' = cpInFlight - 1
    /\ ~ok => (status # 0 \/ ~detail)
    /\ IF settingsMounted
       THEN IF ok THEN PasswordCardReset
            ELSE /\ changingPassword' = FALSE
                 /\ UNCHANGED <<currentPassword, newPassword, confirmNewPassword>>
       ELSE UNCHANGED <<currentPassword, newPassword, confirmNewPassword,
                        changingPassword>>
    /\ toast' = IF ok THEN "success"
                ELSE CatchToast("SettingsPage.handleChangePassword", status, detail)
    /\ last' = Step(IF ok THEN "ok" ELSE "fail", "SettingsPage.handleChangePassword",
                    IF ok THEN 200 ELSE status)
    /\ UNCHANGED LoginPageVars
    /\ UNCHANGED authVars

\* ------------------------------------------------------- SubscriptionPage
PlanNames == {"wolffs_alerts", "custom_strategy"}
Absent == -1          \* subscription.expiry_date is missing (or empty)
InvalidDate == -2     \* subscription.expiry_date does not parse: new Date(..) is NaN
Times == 0..MaxTime
Statuses == {"none", "active", "trial", "expired"}

\* user?.subscription || {}
NoSub == [plan_type |-> "none", status |-> "none", expiry |-> Absent]
Subscriptions ==
    {NoSub} \cup
    [plan_type : PlanNames, status : Statuses \ {"none"},
     expiry : Times \cup {Absent, InvalidDate}]

hasActiveSubscription == subscription.status \in {"active", "trial"}
currentPlan == subscription.plan_type

InitSub ==
    /\ srvPlans = {}
    /\ subscription = NoSub
    /\ selectedPlan = "none"
    /\ showModal = FALSE
    /\ processing = FALSE
    /\ trialInFlight = "none"

\* mutant: the trial is added to the plans the account has
StartTrialAdds(plans, pl) == plans \cup {pl}

\* server, POST /api/subscription/start-trial: the trial replaces the plan the
\* account has ("Starting this plan will replace your current subscription")
StartTrial(plans, pl) == {pl}

\* server: the subscription object of the user returned by /api/auth/me, login
\* and register
ServerSubscription(plans) ==
    IF plans = {} THEN NoSub
    ELSE [plan_type |-> CHOOSE pl \in plans : \A q \in plans :
                            (q = "wolffs_alerts") => (pl = "wolffs_alerts"),
          status |-> "trial", expiry |-> Absent]

SubscriptionPageReset ==
    /\ selectedPlan' = "none"
    /\ showModal' = FALSE
    /\ processing' = FALSE

\* setUser(response.data) / setUser(userData): the user object's subscription
SetUserSubscription ==
    subscription' =
        IF user' = Null THEN NoSub
        ELSE IF last'.op \in {"me_ok", "ok"} /\ user' # Null
                /\ last'.site \in {"fetchUser"} \cup PostSites
             THEN ServerSubscription(srvPlans)
             ELSE subscription

\* SubscriptionPage.handlePlanClick
handlePlanClick(pl) ==
    /\ isAuthenticated /\ ~loading
    /\ ~showModal
    /\ IF hasActiveSubscription /\ currentPlan = pl
       THEN /\ UNCHANGED <<selectedPlan, showModal>>
            /\ last' = Step("navigate", "/dashboard", 0)
       ELSE /\ selectedPlan' = pl
            /\ showModal' = TRUE
            /\ last' = Step("modal", pl, 0)
    /\ toast' = "none"
    /\ UNCHANGED <<srvPlans, subscription, processing, trialInFlight>>
    /\ UNCHANGED authVars

\* the modal is dismissed
CloseModal ==
    /\ showModal /\ ~processing
    /\ showModal' = FALSE
    /\ last' = Step("close", "modal", 0) /\ toast' = "none"
    /\ UNCHANGED <<srvPlans, subscription, selectedPlan, processing, trialInFlight>>
    /\ UNCHANGED authVars

\* SubscriptionPage.handleStartTrial up to its first await
handleStartTrial ==
    /\ showModal /\ ~processing /\ selectedPlan # "none"
    /\ PageRequestStart
    /\ processing' = TRUE
    /\ trialInFlight' = selectedPlan
    /\ UNCHANGED <<srvPlans, subscription, selectedPlan, showModal>>

\* the trial request succeeds: toast.success; await refreshUser()
StartTrialOk ==
    /\ trialInFlight # "none"
    /\ PageHandlerOk("SubscriptionPage.handleStartTrial")
    /\ srvPlans' = StartTrial(srvPlans, trialInFlight)
    /\ trialInFlight' = "none"
    /\ IF lsToken = Null
       THEN showModal' = FALSE /\ processing' = FALSE
       ELSE UNCHANGED <<showModal, processing>>
    /\ UNCHANGED <<subscription, selectedPlan>>

\* the trial request fails: catch and finally
StartTrialFails(status, detail) ==
    /\ trialInFlight # "none"
    /\ RequestFails("SubscriptionPage.handleStartTrial", status, detail)
    /\ trialInFlight' = "none"
    /\ processing' = FALSE
    /\ srvPlans' \in IF status = 0
                     THEN {srvPlans, StartTrial(srvPlans, trialInFlight)}
                     ELSE {srvPlans}
    /\ UNCHANGED <<subscription, selectedPlan, showModal>>

\* GET /api/auth/me is answered; handleStartTrial, if it awaits refreshUser(),
\* goes on: setShowModal(false); navigate('/dashboard'); setProcessing(false)
SubscriptionMeResponse(t) ==
    /\ MeResponse(t)
    /\ SetUserSubscription
    /\ IF token' = Null \/ user' = Null
       THEN SubscriptionPageReset
       ELSE IF processing /\ trialInFlight = "none"
            THEN showModal' = FALSE /\ processing' = FALSE /\ UNCHANGED selectedPlan
            ELSE UNCHANGED <<selectedPlan, showModal, processing>>
    /\ UNCHANGED <<srvPlans, trialInFlight>>

\* login / register resolve with the account's user object
SubscriptionPostOk(kind) ==
    /\ PostOk(kind)
    /\ SetUserSubscription
    /\ UNCHANGED <<srvPlans, selectedPlan, showModal, processing, trialInFlight>>

\* ------------------------------------------------------------- AlertsPage
InitPoll ==
    /\ alertsPageMounted = FALSE
    /\ apInFlight = 0
    /\ apLastFailed = FALSE
    /\ apRefreshing = FALSE
    /\ pollDelay = 0

\* /alerts is rendered: fetchAlerts() and setInterval(fetchAlerts, 15000)
AlertsPageMount ==
    /\ isAuthenticated /\ ~loading
    /\ ~alertsPageMounted /\ apInFlight < MaxPoll
    /\ alertsPageMounted' = TRUE
    /\ apInFlight' = apInFlight + 1
    /\ apLastFailed' = FALSE
    /\ apRefreshing' = FALSE
    /\ pollDelay' = POLL_MS
    /\ last' = Step("mount", "AlertsPage", 0) /\ toast' = "none"
    /\ UNCHANGED authVars

\* the effect's cleanup: clearInterval(interval)
AlertsPageUnmount ==
    /\ alertsPageMounted
    /\ alertsPageMounted' = FALSE
    /\ pollDelay' = 0
    /\ last' = Step("unmount", "AlertsPage", 0) /\ toast' = "none"
    /\ UNCHANGED <<apInFlight, apLastFailed, apRefreshing>>
    /\ UNCHANGED authVars

\* the interval fires: fetchAlerts up to its await
PollTick ==
    /\ alertsPageMounted /\ pollDelay > 0
    /\ apInFlight < MaxPoll
    /\ apInFlight' = apInFlight + 1
    /\ last' = Step("poll", "AlertsPage.fetchAlerts", IF apLastFailed THEN 1 ELSE 0)
    /\ toast' = "none"
    /\ UNCHANGED <<alertsPageMounted, apLastFailed, apRefreshing, pollDelay>>
    /\ UNCHANGED authVars

\* AlertsPage.handleRefresh up to await fetchAlerts()
AlertsHandleRefresh ==
    /\ alertsPageMounted /\ ~apRefreshing
    /\ apInFlight < MaxPoll
    /\ apInFlight' = apInFlight + 1
    /\ apRefreshing' = TRUE
    /\ last' = Step("refresh", "AlertsPage", 0) /\ toast' = "none"
    /\ UNCHANGED <<alertsPageMounted, apLastFailed, pollDelay>>
    /\ UNCHANGED authVars

\* mutant: the catch block calls fetchAlerts() again
FetchAlertsCatchRetries(inflight) == inflight

\* fetchAlerts' catch: console.error only; the failed request is over
FetchAlertsCatch(inflight) == inflight - 1

\* AlertsPage.fetchAlerts after the await; byRefresh: awaited by handleRefresh
AlertsFetchResponse(byRefresh, ok, status) ==
    /\ apInFlight > 0
    /\ byRefresh => apRefreshing
    /\ ~byRefresh => (apInFlight > 1 \/ ~apRefreshing)
    /\ ok <=> status = 200
    /\ apInFlight' = IF ok THEN apInFlight - 1 ELSE FetchAlertsCatch(apInFlight)
    /\ apLastFailed' = ~ok
    /\ apRefreshing' = IF byRefresh THEN FALSE ELSE apRefreshing
    /\ toast' = IF byRefresh
                THEN "success"
                ELSE IF ok THEN "none"
                     ELSE CatchToast("AlertsPage.fetchAlerts", status, FALSE)
    /\ last' = Step(IF ok THEN "ok" ELSE "fail",
                    IF byRefresh THEN "AlertsPage.handleRefresh"
                    ELSE "AlertsPage.fetchAlerts", status)
    /\ UNCHANGED <<alertsPageMounted, pollDelay>>
    /\ UNCHANGED authVars

\* requests awaiting their response, over every call site
RECURSIVE SumMeInFlight(_)
SumMeInFlight(n) == IF n = 0 THEN 0 ELSE meInFlight[n] + SumMeInFlight(n - 1)
InFlightTotal ==
    SumMeInFlight(NumTokens) + postInFlight["login"] + postInFlight["register"]
        + pagePending + apInFlight

\* ---------------------------------- SettingsPage: the connection card
DeltaKinds == {"connect", "reconnect", "disconnect", "clear"}
DeltaSite(kind) ==
    CASE kind = "connect" -> "SettingsPage.handleConnect"
      [] kind = "reconnect" -> "SettingsPage.handleReconnect"
      [] kind = "disconnect" -> "SettingsPage.handleDisconnect"
      [] OTHER -> "SettingsPage.handleClearCredentials"
NoOp == [kind |-> "none", stage |-> "none"]
SettingsReplies == {"none", "sent", "has", "hasnot", "failed"}

InitDelta ==
    /\ deltaMounted = FALSE
    /\ hasSavedCredentials = FALSE
    /\ deltaStatus = FALSE
    /\ connecting = FALSE
    /\ keysEntered = FALSE
    /\ settingsReply = "none"
    /\ mountStatus = FALSE
    /\ deltaOp = NoOp
    /\ srvCreds = FALSE
    /\ srvConnected = FALSE

\* the card's three states: connected, saved credentials, the key form
CardShows ==
    IF deltaStatus THEN "connected"
    ELSE IF hasSavedCredentials THEN "saved" ELSE "form"

\* server: what a request of the card does to the account when it succeeds
DeltaServer(kind, creds, connected) ==
    CASE kind = "connect" -> [creds |-> TRUE, connected |-> TRUE]
      [] kind = "reconnect" -> [creds |-> creds, connected |-> TRUE]
      [] kind = "disconnect" -> [creds |-> creds, connected |-> FALSE]
      [] OTHER -> [creds |-> FALSE, connected |-> FALSE]

\* the state of a SettingsPage instance that is gone
DeltaPageReset ==
    /\ deltaMounted' = FALSE
    /\ hasSavedCredentials' = FALSE
    /\ deltaStatus' = FALSE
    /\ connecting' = FALSE
    /\ keysEntered' = FALSE

\* /settings is rendered: useState initial values; fetchSettings() and
\* fetchDeltaStatus() of the mount effect
DeltaMount ==
    /\ isAuthenticated /\ ~loading
    /\ ~deltaMounted
    /\ settingsReply = "none" /\ ~mountStatus /\ deltaOp = NoOp
    /\ deltaMounted' = TRUE
    /\ hasSavedCredentials' = FALSE
    /\ deltaStatus' = FALSE
    /\ connecting' = FALSE
    /\ keysEntered' = FALSE
    /\ settingsReply' = "sent"
    /\ mountStatus' = TRUE
    /\ last' = Step("mount", "SettingsPage", 0) /\ toast' = "none"
    /\ UNCHANGED <<deltaOp, srvCreds, srvConnected>>
    /\ UNCHANGED authVars

DeltaUnmount ==
    /\ deltaMounted
    /\ DeltaPageReset
    /\ last' = Step("unmount", "SettingsPage", 0) /\ toast' = "none"
    /\ UNCHANGED <<settingsReply, mountStatus, deltaOp, srvCreds, srvConnected>>
    /\ UNCHANGED authVars

\* the user fills in apiKey and apiSecret
TypeKeys ==
    /\ deltaMounted /\ CardShows = "form" /\ ~keysEntered
    /\ keysEntered' = TRUE
    /\ last' = Step("type", "SettingsPage", 0) /\ toast' = "none"
    /\ UNCHANGED <<deltaMounted, hasSavedCredentials, deltaStatus, connecting,
                   settingsReply, mountStatus, deltaOp, srvCreds, srvConnected>>
    /\ UNCHANGED authVars

\* server: GET /api/settings is answered with has_delta_credentials as it is
\* now, or fails; the response is still on its way
SettingsServe(ok) ==
    /\ settingsReply = "sent"
    /\ settingsReply' = IF ~ok THEN "failed"
                        ELSE IF srvCreds THEN "has" ELSE "hasnot"
    /\ last' = Step("serve", "SettingsPage.fetchSettings", 0) /\ toast' = "none"
    /\ UNCHANGED <<deltaMounted, hasSavedCredentials, deltaStatus, connecting,
                   keysEntered, mountStatus, deltaOp, srvCreds, srvConnected>>
    /\ UNCHANGED authVars

\* fetchSettings: setHasSavedCredentials(response.data.has_delta_credentials || false)
FetchSettingsCredentials(flag, reply) ==
    IF reply = "failed" THEN flag ELSE reply = "has"

\* fetchSettings after its await
SettingsDeliver ==
    /\ settingsReply \in {"has", "hasnot", "failed"}
    /\ settingsReply' = "none"
    /\ hasSavedCredentials' =
            IF deltaMounted
            THEN FetchSettingsCredentials(hasSavedCredentials, settingsReply)
            ELSE hasSavedCredentials
    /\ last' = Step(IF settingsReply = "failed" THEN "fail" ELSE "ok",
                    "SettingsPage.fetchSettings", 0)
    /\ toast' = "none"
    /\ UNCHANGED <<deltaMounted, deltaStatus, connecting, keysEntered, mountStatus,
                   deltaOp, srvCreds, srvConnected>>
    /\ UNCHANGED authVars

\* handleConnect, handleReconnect, handleDisconnect, handleClearCredentials up
\* to the await of their request; confirmed: the answer to confirm()
DeltaHandlerStart(kind, confirmed) ==
    /\ deltaMounted /\ deltaOp = NoOp
    /\ CardShows = CASE kind = "connect" -> "form"
                     [] kind = "disconnect" -> "connected"
                     [] OTHER -> "saved"
    /\ kind \in {"connect", "reconnect"} => ~connecting
    /\ confirmed \/ kind = "clear"
    /\ IF kind = "connect" /\ ~keysEntered
       THEN /\ toast' = "error_fallback"
            /\ last' = Step("invalid", DeltaSite(kind), 0)
            /\ UNCHANGED <<connecting, deltaOp>>
       ELSE IF kind = "clear" /\ ~confirmed
       THEN /\ toast' = "none"
            /\ last' = Step("cancel", DeltaSite(kind), 0)
            /\ UNCHANGED <<connecting, deltaOp>>
       ELSE /\ toast' = "none"
            /\ last' = Step("start", DeltaSite(kind), 0)
            /\ connecting' = (kind \in {"connect", "reconnect"})
            /\ deltaOp' = [kind |-> kind, stage |-> "request"]
    /\ UNCHANGED <<deltaMounted, hasSavedCredentials, deltaStatus, keysEntered,
                   settingsReply, mountStatus, srvCreds, srvConnected>>
    /\ UNCHANGED authVars

\* the handler's request succeeds: toast.success, the handler's setters, then
\* await fetchDeltaStatus()
DeltaRequestOk ==
    /\ deltaOp.stage = "request"
    /\ deltaOp.kind = "reconnect" => srvCreds
    /\ srvCreds' = DeltaServer(deltaOp.kind, srvCreds, srvConnected).creds
    /\ srvConnected' = DeltaServer(deltaOp.kind, srvCreds, srvConnected).connected
    /\ deltaOp' = [deltaOp EXCEPT !.stage = "status"]
    /\ IF deltaMounted /\ deltaOp.kind = "connect"
       THEN keysEntered' = FALSE /\ hasSavedCredentials' = TRUE
       ELSE IF deltaMounted /\ deltaOp.kind = "clear"
       THEN hasSavedCredentials' = FALSE /\ UNCHANGED keysEntered
       ELSE UNCHANGED <<keysEntered, hasSavedCredentials>>
    /\ last' = Step("ok", DeltaSite(deltaOp.kind), 200) /\ toast' = "success"
    /\ UNCHANGED <<deltaMounted, deltaStatus, connecting, settingsReply, mountStatus>>
    /\ UNCHANGED authVars

\* the handler's request fails: catch (toast.error) and finally
DeltaRequestFails(status, detail) ==
    /\ deltaOp.stage = "request"
    /\ detail => status # 0
    /\ deltaOp' = NoOp
    /\ connecting' = IF deltaOp.kind \in {"connect", "reconnect"}
                     THEN FALSE ELSE connecting
    /\ toast' = CatchToast(DeltaSite(deltaOp.kind), status, detail)
    /\ last' = Step("fail", DeltaSite(deltaOp.kind), status)
    /\ UNCHANGED <<deltaMounted, hasSavedCredentials, deltaStatus, keysEntered,
                   settingsReply, mountStatus, srvCreds, srvConnected>>
    /\ UNCHANGED authVars

\* fetchDeltaStatus after its await: setDeltaStatus(response.data), or the
\* silent catch
FetchDeltaStatus(shown, ok) ==
    IF deltaMounted /\ ok THEN srvConnected ELSE shown

\* the mount effect's fetchDeltaStatus is answered
MountStatusResponse(ok) ==
    /\ mountStatus
    /\ mountStatus' = FALSE
    /\ deltaStatus' = FetchDeltaStatus(deltaStatus, ok)
    /\ last' = Step(IF ok THEN "ok" ELSE "fail", "SettingsPage.fetchDeltaStatus", 0)
    /\ toast' = "none"
    /\ UNCHANGED <<deltaMounted, hasSavedCredentials, connecting, keysEntered,
                   settingsReply, deltaOp, srvCreds, srvConnected>>
    /\ UNCHANGED authVars

\* the handler's fetchDeltaStatus is answered; the handler goes on to
\* await refreshUser(), which returns at once when no token is stored
HandlerStatusResponse(ok) ==
    /\ deltaOp.stage = "status"
    /\ deltaStatus' = FetchDeltaStatus(deltaStatus, ok)
    /\ refreshUser
    /\ IF lsToken = Null
       THEN /\ deltaOp' = NoOp
            /\ connecting' = FALSE
       ELSE /\ deltaOp' = [deltaOp EXCEPT !.stage = "me"]
            /\ UNCHANGED connecting
    /\ last' = Step(IF ok THEN "ok" ELSE "fail", "SettingsPage.fetchDeltaStatus", 1)
    /\ toast' = "none"
    /\ UNCHANGED <<deltaMounted, hasSavedCredentials, keysEntered, settingsReply,
                   mountStatus, srvCreds, srvConnected>>
    /\ UNCHANGED <<lsToken, lsWelcomed, token, user, postInFlight, pagePending,
                   sinceLogout>>

\* GET /api/auth/me is answered; a handler awaiting refreshUser() ends
\* (finally: setConnecting(false)); the page goes with the session
DeltaMeResponse(t) ==
    /\ MeResponse(t)
    /\ deltaOp' = IF deltaOp.stage = "me" THEN NoOp ELSE deltaOp
    /\ IF token' = Null \/ user' = Null
       THEN DeltaPageReset
       ELSE /\ connecting' = IF deltaOp.stage = "me" THEN FALSE ELSE connecting
            /\ UNCHANGED <<deltaMounted, hasSavedCredentials, deltaStatus, keysEntered>>
    /\ UNCHANGED <<settingsReply, mountStatus, srvCreds, srvConnected>>

\* -------------------------------------------------------------- the routes
Paths == {"/", "/subscription", "/dashboard", "/settings", "/alerts", "/admin",
          "/other"}
ProtectedPages == {"SubscriptionPage", "AdminPage", "DashboardPage",
                   "SettingsPage", "AlertsPage"}
SubscriptionPages == {"DashboardPage", "SettingsPage", "AlertsPage"}
SubscriptionPaths == {"/dashboard", "/settings", "/alerts"}

\* mutant: ProtectedRoute without the isAuthenticated test
ProtectedRouteNoAuth(l, a, children) ==
    IF l THEN "LoadingScreen" ELSE children

ProtectedRoute(l, a, children) ==
    IF l THEN "LoadingScreen"
    ELSE IF ~a THEN "Navigate:/"
    ELSE children

\* expiry < new Date(): false for a date that does not parse
ExpiredAt(expiry, t) == expiry \in Times /\ expiry < t

\* mutant: SubscriptionRequiredRoute without the expiry test
SubscriptionRequiredRouteNoExpiry(l, a, sub, t, children) ==
    IF l THEN "LoadingScreen"
    ELSE IF ~a THEN "Navigate:/"
    ELSE IF sub.status \notin {"active", "trial"} THEN "Navigate:/subscription"
    ELSE children

SubscriptionRequiredRoute(l, a, sub, t, children) ==
    IF l THEN "LoadingScreen"
    ELSE IF ~a THEN "Navigate:/"
    ELSE IF sub.expiry # Absent /\ ExpiredAt(sub.expiry, t) THEN "Navigate:/subscription"
    ELSE IF sub.status \notin {"active", "trial"} THEN "Navigate:/subscription"
    ELSE children

PublicRoute(l, a, children) ==
    IF l THEN "LoadingScreen"
    ELSE IF a THEN "Navigate:/subscription"
    ELSE children

\* the element of AppRoutes for a path
RouteElement(p, l, a, sub, t) ==
    CASE p = "/" -> PublicRoute(l, a, "LoginPage")
      [] p = "/subscription" -> ProtectedRoute(l, a, "SubscriptionPage")
      [] p = "/dashboard" -> SubscriptionRequiredRoute(l, a, sub, t, "DashboardPage")
      [] p = "/settings" -> SubscriptionRequiredRoute(l, a, sub, t, "SettingsPage")
      [] p = "/alerts" -> SubscriptionRequiredRoute(l, a, sub, t, "AlertsPage")
      [] p = "/admin" -> ProtectedRoute(l, a, "AdminPage")
      [] OTHER -> "Navigate:/"

\* rendering at path p, following <Navigate replace/> until a page is shown
RECURSIVE Render(_, _, _, _, _)
Render(p, l, a, sub, t) ==
    LET e == RouteElement(p, l, a, sub, t)
    IN CASE e = "Navigate:/" -> Render("/", l, a, sub, t)
         [] e = "Navigate:/subscription" -> Render("/subscription", l, a, sub, t)
         [] OTHER -> [path |-> p, page |-> e]

InitRoutes ==
    /\ now = 0
    /\ renderedAt = 0
    /\ path = Render("/", loading, isAuthenticated, NoSub, 0).path
    /\ page = Render("/", loading, isAuthenticated, NoSub, 0).page

\* the routes re-render after a step, at the location target
RenderAt(target) ==
    LET r == Render(target, loading', token' # Null /\ user' # Null,
                    subscription', now')
    IN /\ path' = r.path
       /\ page' = r.page
       /\ renderedAt' = now'

\* the user opens a location (a link, a button's navigate(), the address bar)
GoTo(p) ==
    /\ last' = Step("goto", p, 0) /\ toast' = "none"
    /\ UNCHANGED authVars
    /\ UNCHANGED <<subscription, now>>
    /\ RenderAt(p)

\* time passes; nothing re-renders
Tick ==
    /\ now < MaxTime
    /\ now' = now + 1
    /\ last' = Step("tick", "none", 0) /\ toast' = "none"
    /\ UNCHANGED <<path, page, renderedAt, subscription>>
    /\ UNCHANGED authVars

\* GET /api/auth/me is answered with the user, whose subscription is sub
RouteMeResponse(t, sub) ==
    /\ MeResponse(t)
    /\ subscription' = IF user' = Null THEN NoSub
                       ELSE IF last'.op = "me_ok" THEN sub ELSE subscription
    /\ UNCHANGED now
    /\ RenderAt(path)

\* login / register resolve with the user, whose subscription is sub;
\* navigate('/subscription')
RoutePostOk(kind, sub) ==
    /\ PostOk(kind)
    /\ subscription' = sub
    /\ UNCHANGED now
    /\ RenderAt("/subscription")

\* logout(); the routes re-render
RouteLogout ==
    /\ Logout
    /\ subscription' = NoSub
    /\ UNCHANGED now
    /\ RenderAt(path)

Init ==
    /\ InitAuth /\ InitDash /\ InitSettings
    /\ InitAdmin /\ InitForms /\ InitSub /\ InitPoll /\ InitRoutes /\ InitDelta
    /\ last = NoStep /\ toast = "none"

\* the sites whose requests end in the AuthContext: login, register and the
\* handlers that call refreshUser()
AuthSites == RefreshSites \cup PostSites

NoPage == UNCHANGED dashVars /\ UNCHANGED settingsVars /\ UNCHANGED moreVars

NextAuth ==
    \/ \E t \in Tokens : MeResponse(t) /\ NoPage
    \/ PageRequestStart /\ NoPage
    \/ \E site \in RefreshSites : PageHandlerOk(site) /\ NoPage
    \/ \E site \in AuthSites, st \in FailStatuses, d \in BOOLEAN :
            RequestFails(site, st, d) /\ NoPage
    \/ \E k \in PostKinds : PostStart(k) /\ NoPage
    \/ \E k \in PostKinds : PostOk(k) /\ NoPage
    \/ Logout /\ NoPage

\* the session: login, register, logout, refreshUser and their responses
SpecAuth == Init /\ [][NextAuth]_vars

NextHttp ==
    \/ \E t \in Tokens : MeResponse(t) /\ NoPage
    \/ PageRequestStart /\ NoPage
    \/ \E site \in Sites, st \in FailStatuses, d \in BOOLEAN :
            RequestFails(site, st, d) /\ NoPage
    \/ \E k \in PostKinds : PostStart(k) /\ NoPage
    \/ \E k \in PostKinds : PostOk(k) /\ NoPage

\* the catch blocks of every call site, in one session
SpecHttp == Init /\ [][NextHttp]_vars

NextDashboard ==
    \/ \E t \in Tokens : MeResponse(t) /\ RouteEffect /\ UNCHANGED <<settingsVars, moreVars>>
    \/ \E k \in PostKinds : PostStart(k) /\ NoPage
    \/ \E k \in PostKinds : PostOk(k) /\ NoPage
    \/ Mount /\ UNCHANGED <<settingsVars, moreVars>>
    \/ Unmount /\ UNCHANGED <<settingsVars, moreVars>>
    \/ handleLogout /\ UNCHANGED <<settingsVars, moreVars>>
    \/ \E s \in SocketIds : SocketOpen(s) /\ UNCHANGED <<settingsVars, moreVars>>
    \/ \E s \in SocketIds : SocketClose(s) /\ UNCHANGED <<settingsVars, moreVars>>
    \/ \E i \in Insts : TimerFire(i) /\ UNCHANGED <<settingsVars, moreVars>>
    \/ \E s \in SocketIds : HeartbeatTick(s) /\ UNCHANGED <<settingsVars, moreVars>>

\* the dashboard's WebSocket connection: login, mount, open, close, reconnect,
\* unmount, logout
SpecDashboard == Init /\ [][NextDashboard]_vars

\* ... where a timer that is set does fire (the browser's event loop)
SpecDashboardFair ==
    SpecDashboard /\ \A i \in Insts : WF_vars(TimerFire(i) /\ UNCHANGED <<settingsVars, moreVars>>)

NextAlerts ==
    \/ \E t \in Tokens : MeResponse(t) /\ RouteEffect /\ UNCHANGED <<settingsVars, moreVars>>
    \/ Mount /\ UNCHANGED <<settingsVars, moreVars>>
    \/ Unmount /\ UNCHANGED <<settingsVars, moreVars>>
    \/ \E s \in SocketIds : SocketOpen(s) /\ UNCHANGED <<settingsVars, moreVars>>
    \/ \E s \in SocketIds : SocketClose(s) /\ UNCHANGED <<settingsVars, moreVars>>
    \/ \E i \in Insts : TimerFire(i) /\ UNCHANGED <<settingsVars, moreVars>>
    \/ handleRefresh /\ UNCHANGED <<settingsVars, moreVars>>
    \/ \E s \in SocketIds, k \in FrameKinds, a \in AlertIds :
            SocketMessage(s, k, a) /\ UNCHANGED <<settingsVars, moreVars>>
    \/ \E r \in BOOLEAN, ok \in BOOLEAN, l \in ServerLists :
            FetchAlertsResponse(r, ok, l) /\ UNCHANGED <<settingsVars, moreVars>>

\* the dashboard's alerts list in one session: mount, the WebSocket's frames,
\* GET /api/alerts responses, unmount
SpecAlerts == Init /\ [][NextAlerts]_vars

NextSettings ==
    \/ \E t \in Tokens : MeResponse(t) /\ SettingsRouteEffect /\ UNCHANGED <<dashVars, moreVars>>
    \/ SettingsMount /\ UNCHANGED <<dashVars, moreVars>>
    \/ SettingsUnmount /\ UNCHANGED <<dashVars, moreVars>>
    \/ \E ok \in BOOLEAN, v \in ServerInstruments :
            FetchSettingsResponse(ok, v) /\ UNCHANGED <<dashVars, moreVars>>
    \/ \E x \in InstrumentNames : toggleInstrument(x) /\ UNCHANGED <<dashVars, moreVars>>

\* the settings page's instruments list in one session
SpecSettings == Init /\ [][NextSettings]_vars

NextAdmin ==
    \/ \E t \in Tokens : MeResponse(t) /\ UNCHANGED adminVars
            /\ UNCHANGED <<dashVars, settingsVars, deltaVars, formVars, subVars, pollVars, routeVars>>
    \/ \E adm \in BOOLEAN : AdminMount(adm)
            /\ UNCHANGED <<dashVars, settingsVars, deltaVars, formVars, subVars, pollVars, routeVars>>
    \/ AdminUnmount
            /\ UNCHANGED <<dashVars, settingsVars, deltaVars, formVars, subVars, pollVars, routeVars>>
    \/ \E u, p, w \in AdminResponses : AdminFetchResponse(u, p, w)
            /\ UNCHANGED <<dashVars, settingsVars, deltaVars, formVars, subVars, pollVars, routeVars>>
    \/ (adminMounted /\ PageRequestStart) /\ UNCHANGED adminVars
            /\ UNCHANGED <<dashVars, settingsVars, deltaVars, formVars, subVars, pollVars, routeVars>>
    \/ \E site \in AdminActionSites : AdminActionOk(site)
            /\ UNCHANGED <<dashVars, settingsVars, deltaVars, formVars, subVars, pollVars, routeVars>>
    \/ \E site \in AdminActionSites, st \in FailStatuses, d \in BOOLEAN :
            AdminActionFails(site, st, d)
            /\ UNCHANGED <<dashVars, settingsVars, deltaVars, formVars, subVars, pollVars, routeVars>>

\* the admin page in one session: mount, fetchData, the handlers' failures
SpecAdmin == Init /\ [][NextAdmin]_vars

NextForms ==
    \/ \E t \in Tokens : MeResponse(t) /\ SettingsRouteEffect
            /\ (IF settingsMounted /\ ~settingsMounted'
                THEN PasswordCardReset ELSE UNCHANGED <<currentPassword, newPassword,
                                           confirmNewPassword, changingPassword>>)
            /\ UNCHANGED <<cpInFlight, LoginPageVars>>
            /\ UNCHANGED <<dashVars, deltaVars, adminVars, subVars, pollVars, routeVars>>
    \/ \E m \in BOOLEAN, pw, cf \in Passwords : TypeRegister(m, pw, cf)
            /\ UNCHANGED <<dashVars, settingsVars, deltaVars, adminVars, subVars, pollVars, routeVars>>
    \/ handleRegister
            /\ UNCHANGED <<dashVars, settingsVars, deltaVars, adminVars, subVars, pollVars, routeVars>>
    \/ \E f \in BOOLEAN : handleLogin(f)
            /\ UNCHANGED <<dashVars, settingsVars, deltaVars, adminVars, subVars, pollVars, routeVars>>
    \/ \E k \in PostKinds : LoginPageOk(k)
            /\ UNCHANGED <<dashVars, settingsVars, deltaVars, adminVars, subVars, pollVars, routeVars>>
    \/ \E k \in PostKinds, st \in FailStatuses, d \in BOOLEAN : LoginPageFails(k, st, d)
            /\ UNCHANGED <<dashVars, settingsVars, deltaVars, adminVars, subVars, pollVars, routeVars>>
    \/ SettingsMount /\ PasswordCardReset /\ UNCHANGED <<cpInFlight, LoginPageVars>>
            /\ UNCHANGED <<dashVars, deltaVars, adminVars, subVars, pollVars, routeVars>>
    \/ SettingsUnmount /\ PasswordCardReset /\ UNCHANGED <<cpInFlight, LoginPageVars>>
            /\ UNCHANGED <<dashVars, deltaVars, adminVars, subVars, pollVars, routeVars>>
    \/ \E cur \in BOOLEAN, np, cf \in Passwords : TypePassword(cur, np, cf)
            /\ UNCHANGED <<dashVars, settingsVars, deltaVars, adminVars, subVars, pollVars, routeVars>>
    \/ handleChangePassword
            /\ UNCHANGED <<dashVars, settingsVars, deltaVars, adminVars, subVars, pollVars, routeVars>>
    \/ \E ok \in BOOLEAN, st \in FailStatuses, d \in BOOLEAN :
            ChangePasswordResponse(ok, st, d)
            /\ UNCHANGED <<dashVars, settingsVars, deltaVars, adminVars, subVars, pollVars, routeVars>>

\* the register form and the password card in one session
SpecForms == Init /\ [][NextForms]_vars

NextSubscription ==
    \/ \E t \in Tokens : SubscriptionMeResponse(t)
            /\ UNCHANGED <<dashVars, settingsVars, deltaVars, adminVars, formVars, pollVars, routeVars>>
    \/ \E k \in PostKinds : PostStart(k) /\ UNCHANGED subVars
            /\ UNCHANGED <<dashVars, settingsVars, deltaVars, adminVars, formVars, pollVars, routeVars>>
    \/ \E k \in PostKinds : SubscriptionPostOk(k)
            /\ UNCHANGED <<dashVars, settingsVars, deltaVars, adminVars, formVars, pollVars, routeVars>>
    \/ \E pl \in PlanNames : handlePlanClick(pl)
            /\ UNCHANGED <<dashVars, settingsVars, deltaVars, adminVars, formVars, pollVars, routeVars>>
    \/ CloseModal
            /\ UNCHANGED <<dashVars, settingsVars, deltaVars, adminVars, formVars, pollVars, routeVars>>
    \/ handleStartTrial
            /\ UNCHANGED <<dashVars, settingsVars, deltaVars, adminVars, formVars, pollVars, routeVars>>
    \/ StartTrialOk
            /\ UNCHANGED <<dashVars, settingsVars, deltaVars, adminVars, formVars, pollVars, routeVars>>
    \/ \E st \in FailStatuses, d \in BOOLEAN : StartTrialFails(st, d)
            /\ UNCHANGED <<dashVars, settingsVars, deltaVars, adminVars, formVars, pollVars, routeVars>>

\* the subscription page and the account's plans in one session
SpecSubscription == Init /\ [][NextSubscription]_vars

NextPoll ==
    \/ \E t \in Tokens : MeResponse(t) /\ UNCHANGED pollVars
            /\ UNCHANGED <<dashVars, settingsVars, deltaVars, adminVars, formVars, subVars, routeVars>>
    \/ PageRequestStart /\ UNCHANGED pollVars
            /\ UNCHANGED <<dashVars, settingsVars, deltaVars, adminVars, formVars, subVars, routeVars>>
    \/ \E site \in Sites, st \in FailStatuses, d \in BOOLEAN :
            RequestFails(site, st, d) /\ UNCHANGED pollVars
            /\ UNCHANGED <<dashVars, settingsVars, deltaVars, adminVars, formVars, subVars, routeVars>>
    \/ \E k \in PostKinds : PostStart(k) /\ UNCHANGED pollVars
            /\ UNCHANGED <<dashVars, settingsVars, deltaVars, adminVars, formVars, subVars, routeVars>>
    \/ \E k \in PostKinds : PostOk(k) /\ UNCHANGED pollVars
            /\ UNCHANGED <<dashVars, settingsVars, deltaVars, adminVars, formVars, subVars, routeVars>>
    \/ AlertsPageMount
            /\ UNCHANGED <<dashVars, settingsVars, deltaVars, adminVars, formVars, subVars, routeVars>>
    \/ AlertsPageUnmount
            /\ UNCHANGED <<dashVars, settingsVars, deltaVars, adminVars, formVars, subVars, routeVars>>
    \/ PollTick
            /\ UNCHANGED <<dashVars, settingsVars, deltaVars, adminVars, formVars, subVars, routeVars>>
    \/ AlertsHandleRefresh
            /\ UNCHANGED <<dashVars, settingsVars, deltaVars, adminVars, formVars, subVars, routeVars>>
    \/ \E r \in BOOLEAN, ok \in BOOLEAN, st \in FailStatuses \cup {200} :
            AlertsFetchResponse(r, ok, st)
            /\ UNCHANGED <<dashVars, settingsVars, deltaVars, adminVars, formVars, subVars, routeVars>>

\* every call site's requests with the alerts page's 15 s poll
SpecPoll == Init /\ [][NextPoll]_vars

RouteFrame ==
    /\ UNCHANGED <<srvPlans, selectedPlan, showModal, processing, trialInFlight>>
    /\ UNCHANGED <<dashVars, settingsVars, deltaVars, adminVars, formVars, pollVars>>

NextRoutes ==
    \/ \E p \in Paths : GoTo(p) /\ RouteFrame
    \/ Tick /\ RouteFrame
    \/ \E t \in Tokens, sub \in Subscriptions : RouteMeResponse(t, sub) /\ RouteFrame
    \/ \E k \in PostKinds : PostStart(k) /\ UNCHANGED <<subscription, routeVars>> /\ RouteFrame
    \/ \E k \in PostKinds, sub \in Subscriptions : RoutePostOk(k, sub) /\ RouteFrame
    \/ RouteLogout /\ RouteFrame

\* the routes in one session: locations, the session and the clock
SpecRoutes == Init /\ [][NextRoutes]_vars

DeltaFrame ==
    UNCHANGED <<dashVars, settingsVars, adminVars, formVars, subVars, pollVars, routeVars>>

NextDelta ==
    \/ \E t \in Tokens : DeltaMeResponse(t) /\ DeltaFrame
    \/ DeltaMount /\ DeltaFrame
    \/ DeltaUnmount /\ DeltaFrame
    \/ TypeKeys /\ DeltaFrame
    \/ \E ok \in BOOLEAN : SettingsServe(ok) /\ DeltaFrame
    \/ SettingsDeliver /\ DeltaFrame
    \/ \E k \in DeltaKinds, c \in BOOLEAN : DeltaHandlerStart(k, c) /\ DeltaFrame
    \/ DeltaRequestOk /\ DeltaFrame
    \/ \E st \in FailStatuses, d \in BOOLEAN : DeltaRequestFails(st, d) /\ DeltaFrame
    \/ \E ok \in BOOLEAN : MountStatusResponse(ok) /\ DeltaFrame
    \/ \E ok \in BOOLEAN : HandlerStatusResponse(ok) /\ DeltaFrame

\* the settings page's connection card, its requests and the session
SpecDelta == Init /\ [][NextDelta]_vars

\* ------------------------------------------------------------ properties
ErrorToasts == {"error_detail", "error_fallback"}
SessionCleared ==
    lsToken = Null /\ token = Null /\ user = Null /\ authHeader = Null
Quiescent ==
    /\ \A t \in Tokens : meInFlight[t] = 0
    /\ \A k \in PostKinds : postInFlight[k] = 0

\* C2: after logout the session stays logged out until the next successful
\* login or register: not authenticated, no token in storage or in state.
C2_StaysLoggedOut ==
    sinceLogout => (~isAuthenticated /\ lsToken = Null /\ token = Null)

\* C3 as claimed: a 401 response at any call site clears the session.
C3_Any401ForcesLogout ==
    (last.op = "fail" /\ last.status = 401) => SessionCleared

\* C3: a 401 response to GET /api/auth/me (fetchUser, refreshUser) clears the
\* token in storage, the token and user state and the Authorization header.
C3_Me401ForcesLogout ==
    (last.op = "fail" /\ last.site = "fetchUser" /\ last.status = 401)
        => SessionCleared
C3_Witness ==
    /\ last.op = "fail" /\ last.site = "fetchUser" /\ last.status = 401
    /\ pagePending > 0 /\ ~sinceLogout

\* C5: when no /api/auth/me, login or register request is in flight, the
\* Authorization header carries exactly the token state (absent when null).
C5_HeaderMatchesToken == Quiescent => authHeader = token

C11_Any403Redirects ==
    (/\ last.op \in {"ok", "fail"}
     /\ last.site \in AdminLoadSites \cup AdminActionSites
     /\ adminSaw403)
        => (toast = "error_admin" /\ adminPath = "/subscription")

\* C11: when fetchData's Promise.all rejects with a 403 (the first of the users
\* and plans requests to fail), the 'Admin access required' toast is shown, the
\* page navigates to /subscription and users, plans and welcomeConfig keep the
\* values they had before the load.
C11_Load403Redirects ==
    [][(/\ last'.op = "fail"
        /\ last'.site = "AdminPage.fetchData"
        /\ last'.status = 403)
          => /\ toast' = "error_admin"
             /\ adminPath' = "/subscription"
             /\ ~adminMounted'
             /\ adminData' = adminData]_vars
C11_Witness ==
    /\ last.op = "fail" /\ last.site = "AdminPage.fetchData" /\ last.status = 403
    /\ adminPath = "/subscription" /\ toast = "error_admin"
    /\ adminData.users # 0

\* C12: a register request and a change-password request start only with a
\* new password of at least 6 characters; with a shorter one the handler shows
\* an error and sends nothing.
C12_MinPasswordLength ==
    [][/\ postInFlight'["register"] > postInFlight["register"]
            => regPassword.len >= MIN_PASSWORD_LENGTH
       /\ cpInFlight' > cpInFlight => newPassword.len >= MIN_PASSWORD_LENGTH
       /\ (/\ last'.op \in {"submit", "reject"}
           /\ last'.site = "LoginPage.handleRegister"
           /\ regPassword.len < MIN_PASSWORD_LENGTH)
            => (toast' = "error_validation" /\ postInFlight' = postInFlight)
       /\ (/\ last'.op \in {"submit", "reject"}
           /\ last'.site = "SettingsPage.handleChangePassword"
           /\ newPassword.len < MIN_PASSWORD_LENGTH)
            => (toast' = "error_validation" /\ cpInFlight' = cpInFlight)]_vars
C12_Witness ==
    /\ last.op = "submit" /\ last.site = "LoginPage.handleRegister"
    /\ regPassword.len = MIN_PASSWORD_LENGTH
    /\ postInFlight["register"] = 1

\* C13 as claimed: while password and confirm-password differ the register
\* submit control is not enabled.
C13_SubmitDisabledOnMismatch ==
    (LoginPageShown /\ regPassword # regConfirmPassword) => ~RegisterSubmitEnabled

\* C13: a register request never starts with mismatched passwords: submitted
\* with two different passwords, handleRegister shows an error and sends
\* nothing (the submit control itself is enabled whenever the page is not
\* waiting for a login or register response).
C13_NoRegisterOnMismatch ==
    [][/\ postInFlight'["register"] > postInFlight["register"]
            => regPassword = regConfirmPassword
       /\ (/\ last'.op \in {"submit", "reject"}
           /\ last'.site = "LoginPage.handleRegister"
           /\ regPassword # regConfirmPassword)
            => (/\ last'.op = "reject"
                /\ toast' = "error_validation"
                /\ postInFlight' = postInFlight)]_vars
C13_Witness ==
    /\ last.op = "reject" /\ last.site = "LoginPage.handleRegister"
    /\ RegisterSubmitEnabled
    /\ regMobile /\ regPassword.len >= MIN_PASSWORD_LENGTH
    /\ regConfirmPassword.len = regPassword.len
    /\ regPassword # regConfirmPassword

C15_NoAutomaticResend == [][apLastFailed => last'.op # "poll"]_vars

\* C15 (amended): no request is re-sent because it failed: a step in which a
\* request fails sends nothing, the requests awaiting a response go down by one.
C15_FailureSendsNothing ==
    [][last'.op = "fail" => InFlightTotal' = InFlightTotal - 1]_vars
C15_Witness ==
    /\ last.op = "fail" /\ last.site = "AlertsPage.fetchAlerts"
    /\ alertsPageMounted /\ pollDelay = POLL_MS /\ apInFlight = 0

\* C16: a heartbeat interval runs only on a socket that has opened and has not
\* had its close event, with a period of 30 seconds; a tick sends 'ping' only
\* when the socket is OPEN; after the close event the interval is cleared, so no
\* tick and no ping happens for that socket again.
C16_HeartbeatOnlyWhileOpen ==
    /\ [](\A s \in SocketIds :
            /\ sock[s].hb \in {0, HEARTBEAT_MS}
            /\ sock[s].hb > 0 => sock[s].state \in {"OPEN", "CLOSING"}
            /\ sock[s].state \in {"none", "CONNECTING", "CLOSED"} => sock[s].hb = 0)
    /\ [][last'.op \in {"ping", "no_ping"} =>
            /\ sock[last'.status].hb = HEARTBEAT_MS
            /\ sock[last'.status].state # "CLOSED"
            /\ last'.op = "ping" <=> sock[last'.status].state = "OPEN"]_vars
C16_Witness ==
    /\ last.op = "ping"
    /\ sock[last.status].state = "OPEN" /\ sock[last.status].hb = HEARTBEAT_MS
    /\ \E s \in SocketIds : sock[s].state = "CLOSED" /\ sock[s].hb = 0

\* C17: after a dashboard instance is unmounted no new WebSocket connection is
\* opened for it: a socket is created only for the instance that is mounted.
C17_NoConnectAfterUnmount ==
    [][\A s \in SocketIds :
          (sock[s].state # "CONNECTING" /\ sock'[s].state = "CONNECTING")
              => (mounted' /\ inst' = sock'[s].owner)]_vars

\* C18: the page of a protected route is shown only when loading is false and
\* isAuthenticated is true; when loading is false and isAuthenticated is false
\* the routes have redirected to '/'.
C18_ProtectedNeedsAuth ==
    /\ page \in ProtectedPages => (~loading /\ isAuthenticated)
    /\ (~loading /\ ~isAuthenticated) => (path = "/" /\ page = "LoginPage")
C18_Witness ==
    /\ last.op = "goto" /\ last.site = "/admin"
    /\ ~loading /\ token # Null /\ user = Null
    /\ path = "/" /\ page = "LoginPage"

\* C19: the dashboard, settings and alerts pages are rendered only for an
\* authenticated user whose subscription status is 'active' or 'trial' and
\* whose expiry_date, when present, is not before the time of the render; an
\* authenticated user who opens one of them in any other case is redirected to
\* /subscription.
C19_SubscriptionRequired ==
    /\ [](page \in SubscriptionPages =>
            /\ ~loading /\ isAuthenticated
            /\ subscription.status \in {"active", "trial"}
            /\ ~ExpiredAt(subscription.expiry, renderedAt))
    /\ [][(/\ last'.op = "goto" /\ last'.site \in SubscriptionPaths
            /\ ~loading' /\ token' # Null /\ user' # Null
            /\ \/ subscription'.status \notin {"active", "trial"}
               \/ ExpiredAt(subscription'.expiry, now'))
           => (path' = "/subscription" /\ page' = "SubscriptionPage")]_vars
C19_Witness ==
    /\ last.op = "goto" /\ last.site = "/dashboard"
    /\ isAuthenticated /\ ~loading
    /\ subscription.status = "active" /\ ExpiredAt(subscription.expiry, now)
    /\ path = "/subscription" /\ page = "SubscriptionPage"

\* C20: when GET /api/auth/me fails with anything other than HTTP 401, the
\* token in localStorage, the token state, the Authorization header and the
\* user are left as they were, and loading becomes false.
C20_Non401KeepsSession ==
    [][(last'.op = "fail" /\ last'.site = "fetchUser" /\ last'.status # 401)
        => /\ lsToken' = lsToken /\ token' = token
           /\ authHeader' = authHeader /\ user' = user
           /\ loading' = FALSE]_vars
C20_Witness ==
    /\ last.op = "fail" /\ last.site = "fetchUser" /\ last.status \in {0, 500}
    /\ lsToken # Null /\ authHeader = lsToken /\ token = lsToken
    /\ ~loading

\* C21: a successful Disconnect keeps the saved-credentials flag; while the
\* settings page stays mounted only a confirmed and successful Clear
\* Credentials resets the flag; a failed or cancelled Disconnect / Clear leaves
\* the flag and the displayed connection status unchanged.
C21_OnlyClearResetsFlag ==
    [][/\ (deltaMounted /\ deltaMounted' /\ hasSavedCredentials
            /\ ~hasSavedCredentials')
          => (last'.op = "ok" /\ last'.site = "SettingsPage.handleClearCredentials")
       /\ (last'.op \in {"fail", "cancel"}
            /\ last'.site \in {"SettingsPage.handleDisconnect",
                               "SettingsPage.handleClearCredentials"})
          => (hasSavedCredentials' = hasSavedCredentials
              /\ deltaStatus' = deltaStatus)]_vars

C23_LoginNotUndone ==
    [][\A t \in Tokens :
          (/\ meInFlight'[t] < meInFlight[t]
           /\ lsToken # Null /\ lsToken # t
           /\ token = lsToken /\ user = lsToken)
          => (lsToken' = lsToken /\ token' # Null /\ user' # Null)]_vars

\* C24: a login or register request that is rejected changes nothing of the
\* auth state (localStorage token, Authorization header, token and user state),
\* and the rejection reaches the caller, whose catch block shows an error toast.
C24_FailedLoginChangesNothing ==
    [][(last'.op = "fail" /\ last'.site \in PostSites)
        => /\ lsToken' = lsToken /\ authHeader' = authHeader
           /\ token' = token /\ user' = user
           /\ toast' \in ErrorToasts]_vars
C24_Witness ==
    /\ last.op = "fail" /\ last.site = "LoginPage.handleLogin"
    /\ toast \in ErrorToasts
    /\ lsToken # Null /\ token = lsToken /\ authHeader = lsToken /\ user = Null

\* C25: the dashboard's alerts list never holds the same alert twice, and a
\* GET /api/alerts response never removes an alert from the list.
C25_NoDuplicateNoDrop ==
    /\ [](\A j, k \in 1..Len(alerts) : j # k => alerts[j] # alerts[k])
    /\ [][(last'.op = "ok" /\ last'.site \in {"DashboardPage.fetchAlerts",
                                             "DashboardPage.handleRefresh"})
            => \A j \in 1..Len(alerts) : Includes(alerts', alerts[j])]_vars

\* C26: while the dashboard is mounted, wsConnected is true exactly when the
\* socket wsRef.current refers to is OPEN.
C26_IndicatorMatchesSocket ==
    mounted => (wsConnected <=> (wsRef[inst] # 0 /\ sock[wsRef[inst]].state = "OPEN"))
C26_Witness ==
    /\ last.op = "onclose" /\ last.status = 1
    /\ mounted /\ inst = 2
    /\ wsConnected /\ sock[wsRef[2]].state = "OPEN"

LiveSockets == {s \in SocketIds : sock[s].state \in Live}
CurrentClosed(i) ==
    IsMounted(i) /\ wsRef[i] # 0 /\ sock[wsRef[i]].state = "CLOSED"

\* C1: while the dashboard is mounted at most one WebSocket created by
\* connectWebSocket is CONNECTING or OPEN.
C1_SingleConnection == mounted => Cardinality(LiveSockets) <= 1

\* C4: once the mounted dashboard's WebSocket has closed, a reconnect timer of
\* 2000 ms is pending, and a new connection attempt is eventually made unless
\* the dashboard is unmounted first; this holds after every close.
C4_ReconnectAfterClose ==
    /\ [](\A i \in Insts : CurrentClosed(i) =>
              pendingTimers[i] > 0 /\ reconnectDelay = RECONNECT_MS)
    /\ \A i \in Insts :
          CurrentClosed(i) ~>
              (~IsMounted(i) \/ sock[wsRef[i]].state = "CONNECTING")
C4_Witness ==
    /\ mounted /\ last.op = "timer" /\ last.status = inst
    /\ sock[wsRef[inst]].state = "CONNECTING"

\* C7: an alert pushed over the WebSocket is added to the dashboard's list only
\* if it is addressed to the plan type of the user's subscription.
C7_OnlyOwnPlanAlerts ==
    (last.op = "onmessage" /\ last.site = "new_alert" /\ user # Null)
        => AlertPlan(last.status) = PlanOf(user)

C9_InstrumentsNonEmpty == Len(instruments) > 0
====
